---- MODULE Spec2Model ----
(***************************************************************************)
(* Model of the joke-video bot:                                            *)
(*   src/src/tts_generator.py   TTSGenerator (segmenter, estimation,       *)
(*                              generate_speech, generate_with_pause)      *)
(*   src/src/video_composer.py  VideoComposer (create_tweet_clips,         *)
(*                              prepare_background, compose_video)         *)
(*   src/src/audio_mixer.py     AudioMixer.get_sound_effect                *)
(*   src/src/main.py            RedditVideoBot (fetch_joke, generate_video,*)
(*                              run_pipeline, the ledger) and main         *)
(*                                                                         *)
(* Strings are sequences of one-character strings, so that strip, split,   *)
(* endswith and concatenation are computed as Python computes them.        *)
(* Times are Python floats in the source; here they are exact rationals    *)
(* [num, den] in lowest terms, so equalities below hold up to the float    *)
(* rounding of the source.                                                 *)
(***************************************************************************)
EXTENDS Integers, Sequences, FiniteSets, TLC

VARIABLES
    pc,              \* position of the call under study
    text,            \* argument `text` of the function under study
    word_timings,    \* list built at tts_generator.py:107-118
    total_duration,  \* argument `total_duration` of _estimate_segments
    segments,        \* list[TTSSegment] returned by the function under study
    use_gtts,        \* TTSGenerator._use_gtts
    pause_duration,  \* generate_with_pause: argument pause_duration
    setup_result,    \* generate_with_pause: TTSResult of the setup
    punchline_result, \* generate_with_pause: TTSResult of the punchline
    tts_result,      \* TTSResult returned to the caller, or NoResult
    clips,           \* list of card clips built by create_tweet_clips
    backgrounds,     \* durations of the videos found in backgrounds_dir
    sound_effect_path, \* sound effect file handed to compose_video
    sound_effect_time, \* compose_video: optional explicit trigger time
    encoder_fails,   \* whether write_videofile raises
    video,           \* what compose_video built, or NoVideo
    history,         \* RedditVideoBot.history (the ledger in memory)
    history_file,    \* contents of output/history.json
    videos,          \* post ids whose video file exists in output/videos
    count,           \* main: args.count
    upload,          \* main: not args.no_upload
    job,             \* main: number of run_pipeline calls started
    joke,            \* run_pipeline: post id of the fetched joke
    video_path,      \* run_pipeline: post id of the composed video file
    results,         \* what the run_pipeline calls returned, in order
    stages,          \* run_pipeline: the stages entered by the latest job
    chunks_left,     \* upload_video: chunks of the video not yet sent
    retry_count,     \* upload_video: retry_count
    response,        \* upload_video: response
    upload_exc,      \* upload_video: the exception it raised, if any
    errors,          \* upload_video: the failures of next_chunk so far
    bots,            \* the bot processes that share one history file
    engines,         \* generate_speech: what each engine does when called
    card_args,       \* create_tweet_card: the arguments other than text
    cards            \* the cards returned by create_tweet_card so far

funvars == <<text, word_timings, total_duration, segments>>
jobvars == <<use_gtts, pause_duration, setup_result, punchline_result,
             tts_result, clips>>
compvars == <<backgrounds, sound_effect_path, sound_effect_time,
              encoder_fails, video>>
botvars == <<history, history_file, videos, count, upload, job, joke,
             video_path, results, stages>>
uploadvars == <<chunks_left, retry_count, response, upload_exc, errors>>
cardvars == <<card_args, cards>>
vars == <<pc, text, word_timings, total_duration, segments,
          use_gtts, pause_duration, setup_result, punchline_result,
          tts_result, clips,
          backgrounds, sound_effect_path, sound_effect_time, encoder_fails,
          video,
          history, history_file, videos, count, upload, job, joke,
          video_path, results, stages,
          chunks_left, retry_count, response, upload_exc, errors,
          bots, engines, card_args, cards>>

----------------------------------------------------------------------------
(* Bounds of the model *)

\* longest word-boundary event list handed to the segmenter
MaxWords == 3
\* longest text (in characters) handed to the estimation path
MaxEstLen == 5
\* longest measured audio duration, in whole seconds
MaxDur == 3

----------------------------------------------------------------------------
(* Exact rational arithmetic standing for the float arithmetic *)

RECURSIVE GCD(_, _)
GCD(a, b) == IF b = 0 THEN a ELSE GCD(b, a % b)

Abs(n) == IF n < 0 THEN -n ELSE n

Rat(n, d) ==
    LET g == GCD(Abs(n), d)
    IN  [num |-> n \div g, den |-> d \div g]

Zero == Rat(0, 1)

\* no TTSResult (yet)
NoResult == [audio_file |-> "none", segments |-> <<>>, total_duration |-> Zero]

\* Optional[...] values are sequences of length 0 (None) or 1
None == <<>>

\* no generate_speech call is studied on its own
NoEngines == <<>>

\* the card renderer's part of the state while another function is studied
CardsIdle == card_args = <<>> /\ cards = <<>>

Some(x) == <<x>>

\* compose_video has not run
NoVideo ==
    [status |-> "none", total_duration |-> Zero, n_loops |-> 0,
     background_duration |-> Zero, audio_clips |-> <<>>, tweet_clips |-> <<>>]

EmptyHistory == [generated_posts |-> <<>>, uploaded_videos |-> <<>>]

\* the composer's part of the state while another function is studied
ComposerIdle ==
    /\ backgrounds = {}
    /\ sound_effect_path = None
    /\ sound_effect_time = None
    /\ encoder_fails = FALSE
    /\ video = NoVideo

\* the uploader's part of the state while another function is studied
UploaderIdle ==
    /\ chunks_left = 0
    /\ retry_count = 0
    /\ response = None
    /\ upload_exc = None
    /\ errors = <<>>

\* the orchestrator's part of the state while another function is studied
BotIdle ==
    /\ history = EmptyHistory
    /\ history_file = None
    /\ videos = {}
    /\ count = 0
    /\ upload = FALSE
    /\ job = 0
    /\ joke = None
    /\ video_path = None
    /\ results = <<>> /\ stages = <<>>

RAdd(a, b) == Rat(a.num * b.den + b.num * a.den, a.den * b.den)

RSub(a, b) == Rat(a.num * b.den - b.num * a.den, a.den * b.den)

RMul(a, b) == Rat(a.num * b.num, a.den * b.den)

RLess(a, b) == a.num * b.den < b.num * a.den

RLeq(a, b) == a.num * b.den <= b.num * a.den

----------------------------------------------------------------------------
(* Python string operations on character sequences *)

IsSpace(c) == c \in {" ", "\n"}

RECURSIVE LStrip(_)
LStrip(s) ==
    IF s = <<>> THEN <<>>
    ELSE IF IsSpace(Head(s)) THEN LStrip(Tail(s)) ELSE s

RECURSIVE RStrip(_)
RStrip(s) ==
    IF s = <<>> THEN <<>>
    ELSE IF IsSpace(s[Len(s)]) THEN RStrip(SubSeq(s, 1, Len(s) - 1)) ELSE s

\* str.strip()
Strip(s) == RStrip(LStrip(s))

\* str.endswith(p) for a one-character p
EndsWith(s, p) == s /= <<>> /\ s[Len(s)] = p

RECURSIVE SplitAcc(_, _, _)
SplitAcc(s, cur, acc) ==
    IF s = <<>> THEN (IF cur = <<>> THEN acc ELSE Append(acc, cur))
    ELSE IF IsSpace(Head(s))
         THEN SplitAcc(Tail(s), <<>>, IF cur = <<>> THEN acc ELSE Append(acc, cur))
         ELSE SplitAcc(Tail(s), Append(cur, Head(s)), acc)

\* str.split(): the maximal runs of non-whitespace characters
Split(s) == SplitAcc(s, <<>>, <<>>)

RECURSIVE Flatten(_)
Flatten(qq) == IF qq = <<>> THEN <<>> ELSE Head(qq) \o Flatten(Tail(qq))

sentence_enders == {".", "!", "?"}

RECURSIVE ReSplitAcc(_, _, _)
ReSplitAcc(s, cur, acc) ==
    IF s = <<>> THEN Append(acc, cur)
    ELSE IF IsSpace(Head(s)) /\ cur /= <<>> /\ cur[Len(cur)] \in sentence_enders
         THEN ReSplitAcc(LStrip(s), <<>>, Append(acc, cur))
         ELSE ReSplitAcc(Tail(s), Append(cur, Head(s)), acc)

\* re.split(r'(?<=[.!?])\s+', s): cut at every whitespace run that follows
\* a sentence-terminal character
ReSplit(s) == ReSplitAcc(s, <<>>, <<>>)

RECURSIVE SumSeq(_)
SumSeq(q) == IF q = <<>> THEN 0 ELSE Head(q) + SumSeq(Tail(q))

----------------------------------------------------------------------------
(* TTSGenerator._estimate_segments *)

TTSSegment(t, s, e, o) ==
    [text |-> t, start_time |-> s, end_time |-> e, origin |-> o]

\* a variant that times a sentence by the average speaking rate
\* (WORDS_PER_SECOND = 2.5) instead of its share of the measured duration
SentenceDuration_BySpeakingRate(word_count, total_words, D) == Rat(2 * word_count, 5)

\* duration = (word_count / total_words) * total_duration
SentenceDuration(word_count, total_words, D) == RMul(Rat(word_count, total_words), D)

RECURSIVE EstimateLoop(_, _, _, _, _, _)
EstimateLoop(sentences, word_counts, total_words, D, current_time, acc) ==
    IF sentences = <<>> THEN acc
    ELSE LET duration == SentenceDuration(Head(word_counts), total_words, D)
         IN  EstimateLoop(Tail(sentences), Tail(word_counts), total_words, D,
                          RAdd(current_time, duration),
                          Append(acc, TTSSegment(Head(sentences), current_time,
                                                 RAdd(current_time, duration),
                                                 "estimate")))

EstimateSegments(t, D) ==
    LET split == ReSplit(Strip(t))
        sentences == SelectSeq(split, LAMBDA s : s /= <<>>)
        word_counts == [k \in 1..Len(sentences) |-> Len(Split(sentences[k]))]
        sum_words == SumSeq(word_counts)
        total_words == IF sum_words = 0 THEN 1 ELSE sum_words
    IN  IF sentences = <<>>
        THEN <<TTSSegment(t, Zero, D, "estimate")>>
        ELSE EstimateLoop(sentences, word_counts, total_words, D, Zero, <<>>)

----------------------------------------------------------------------------
(* TTSGenerator._create_segments_from_timings *)

\* duration assumed when the engine sent no word-boundary event
NoTimingDuration == Rat(5, 1)

\* a variant that knows only the full stop
IsSentenceEnd_DotOnly(word) == EndsWith(word, ".")

\* is_sentence_end = any(word.endswith(p) for p in sentence_enders)
IsSentenceEnd(word) == \E p \in sentence_enders : EndsWith(word, p)

\* a variant that never flushes the words after the last sentence end
IsLastWord_Never(wt, i) == FALSE

\* is_last_word = i == len(word_timings) - 1   (i is 1-based here)
IsLastWord(wt, i) == (i = Len(wt))

\* a variant that ends the segment where its last word starts
SegmentEnd_NoDuration(word_data) == word_data.start

\* segment_end = word_data["start"] + word_data["duration"]
SegmentEnd(word_data) == RAdd(word_data.start, word_data.duration)

SegLoopInit ==
    [segments |-> <<>>,
     current_segment_words |-> <<>>,
     current_segment_text |-> <<>>,
     segment_start |-> Zero]

\* one iteration of `for i, word_data in enumerate(word_timings)`; i is 1-based
SegLoopBody(st, wt, i) ==
    LET word_data == wt[i]
        word == word_data.text
        words1 == Append(st.current_segment_words, word_data)
        text1 == st.current_segment_text \o word \o <<" ">>
        is_sentence_end == IsSentenceEnd(word)
        is_last_word == IsLastWord(wt, i)
    IN  IF (is_sentence_end \/ is_last_word) /\ words1 /= <<>>
        THEN [segments |->
                 Append(st.segments,
                        TTSSegment(Strip(text1), st.segment_start,
                                   SegmentEnd(word_data), "timings")),
              current_segment_words |-> <<>>,
              current_segment_text |-> <<>>,
              segment_start |->
                 IF i + 1 <= Len(wt) THEN wt[i + 1].start ELSE st.segment_start]
        ELSE [st EXCEPT !.current_segment_words = words1,
                        !.current_segment_text = text1]

RECURSIVE SegLoop(_, _, _)
SegLoop(st, wt, i) ==
    IF i > Len(wt) THEN st ELSE SegLoop(SegLoopBody(st, wt, i), wt, i + 1)

CreateSegmentsFromTimings(t, wt) ==
    IF wt = <<>>
    THEN EstimateSegments(t, NoTimingDuration)
    ELSE SegLoop(SegLoopInit, wt, 1).segments

----------------------------------------------------------------------------
(* The speech engine's word-boundary events (tts_generator.py:109-118) *)

\* chunk["offset"] and chunk["duration"] are in units of 100 ns
TicksPerSecond == 10000000

Tick == TicksPerSecond \div 2

WordTexts ==
    { <<"a">>, <<"b", ".">>, <<"c", "!">>, <<"d", "?">>, <<"?", "e">> }

\* a word-boundary event relative to the end of the previous word
ChunkShapes == [text : WordTexts, gap : {0, Tick}, duration : {Tick, 2 * Tick}]

RECURSIVE ChunkOffset(_, _)
ChunkOffset(shapes, i) ==
    IF i = 0 THEN 0
    ELSE ChunkOffset(shapes, i - 1)
         + (IF i = 1 THEN 0 ELSE shapes[i - 1].duration) + shapes[i].gap

\* the WordBoundary chunks of one stream: ordered by offset, not overlapping
ChunksOf(shapes) ==
    [i \in 1..Len(shapes) |->
        [type |-> "WordBoundary", text |-> shapes[i].text,
         offset |-> ChunkOffset(shapes, i), duration |-> shapes[i].duration]]

\* tts_generator.py:113-118
WordTimingsOf(chunks) ==
    [i \in 1..Len(chunks) |->
        [text |-> chunks[i].text,
         start |-> Rat(chunks[i].offset, TicksPerSecond),
         duration |-> Rat(chunks[i].duration, TicksPerSecond)]]

WordTimingLists(n) ==
    { WordTimingsOf(ChunksOf(sh)) : sh \in UNION { [1..k -> ChunkShapes] : k \in 0..n } }

Alphabet == {"a", ".", "?", " "}

Texts(n) == UNION { [1..k -> Alphabet] : k \in 0..n }

RECURSIVE JoinWith(_, _)
JoinWith(parts, sep) ==
    IF parts = <<>> THEN <<>>
    ELSE IF Len(parts) = 1 THEN parts[1]
    ELSE parts[1] \o sep \o JoinWith(Tail(parts), sep)

WordTextsOf(wt) == [i \in 1..Len(wt) |-> wt[i].text]

----------------------------------------------------------------------------
(* Specification SegSpec: _create_segments_from_timings on every bounded   *)
(* event list; the text is the spoken text.                                *)

SegInit ==
    /\ pc = "segmenter"
    /\ word_timings \in WordTimingLists(MaxWords)
    /\ text \in IF word_timings = <<>>
                THEN Texts(MaxEstLen)
                ELSE {JoinWith(WordTextsOf(word_timings), <<" ">>)}
    /\ total_duration = Zero
    /\ segments = <<>>
    /\ use_gtts = FALSE
    /\ pause_duration = Zero
    /\ setup_result = NoResult
    /\ punchline_result = NoResult
    /\ tts_result = NoResult
    /\ clips = <<>>
    /\ ComposerIdle
    /\ BotIdle
    /\ UploaderIdle
    /\ bots = <<>>
    /\ engines = NoEngines
    /\ CardsIdle

CallCreateSegments ==
    /\ pc = "segmenter"
    /\ segments' = CreateSegmentsFromTimings(text, word_timings)
    /\ pc' = "segmenter_done"
    /\ UNCHANGED <<text, word_timings, total_duration>>
    /\ UNCHANGED jobvars
    /\ UNCHANGED <<compvars, botvars>>
    /\ UNCHANGED <<uploadvars, bots, engines, cardvars>>

SegNext == CallCreateSegments

SegSpec == SegInit /\ [][SegNext]_vars

----------------------------------------------------------------------------
(* Specification EstSpec: _estimate_segments on every bounded text and     *)
(* measured duration (tts_generator.py:151-155).                           *)

\* len(audio) / 1000.0
AudioDurations == { Rat(1000 * k, 1000) : k \in 1..MaxDur }

EstInit ==
    /\ pc = "estimate"
    /\ text \in Texts(MaxEstLen)
    /\ total_duration \in AudioDurations
    /\ word_timings = <<>>
    /\ segments = <<>>
    /\ use_gtts = FALSE
    /\ pause_duration = Zero
    /\ setup_result = NoResult
    /\ punchline_result = NoResult
    /\ tts_result = NoResult
    /\ clips = <<>>
    /\ ComposerIdle
    /\ BotIdle
    /\ UploaderIdle
    /\ bots = <<>>
    /\ engines = NoEngines
    /\ CardsIdle

CallEstimateSegments ==
    /\ pc = "estimate"
    /\ segments' = EstimateSegments(text, total_duration)
    /\ pc' = "estimate_done"
    /\ UNCHANGED <<text, word_timings, total_duration>>
    /\ UNCHANGED jobvars
    /\ UNCHANGED <<compvars, botvars>>
    /\ UNCHANGED <<uploadvars, bots, engines, cardvars>>

EstNext == CallEstimateSegments

EstSpec == EstInit /\ [][EstNext]_vars

----------------------------------------------------------------------------
(* TTSGenerator.generate_speech and generate_with_pause *)

\* the primary engine's part: tts_generator.py:120-133
EdgeTTSResult(t, filename, wt) ==
    [audio_file |-> filename,
     segments |-> CreateSegmentsFromTimings(t, wt),
     total_duration |->
        IF wt /= <<>>
        THEN RAdd(wt[Len(wt)].start, wt[Len(wt)].duration)
        ELSE Zero]

\* the fallback engine's part: tts_generator.py:150-164; D is the measured
\* length of the audio file
GTTSResult(t, filename, D) ==
    [audio_file |-> filename,
     segments |-> EstimateSegments(t, D),
     total_duration |-> D]

\* a variant without the fallback after a failure of the primary engine
GenerateSpeech_NoFallback(in, filename, use) ==
    IF ~use /\ ~in.edge.raised
    THEN [raised |-> FALSE, use_gtts |-> use,
          result |-> EdgeTTSResult(in.text, filename, in.edge.word_timings)]
    ELSE IF use /\ ~in.gtts.raised
    THEN [raised |-> FALSE, use_gtts |-> TRUE,
          result |-> GTTSResult(in.text, filename, in.gtts.duration)]
    ELSE [raised |-> TRUE, use_gtts |-> TRUE, result |-> NoResult]

\* generate_speech(text, filename) with the flag value `use` on entry; `in`
\* holds the text and what each engine does when it is called:
\*   in.edge = [raised, word_timings], in.gtts = [raised, duration]
GenerateSpeech(in, filename, use) ==
    IF ~use /\ ~in.edge.raised
    THEN [raised |-> FALSE, use_gtts |-> use,
          result |-> EdgeTTSResult(in.text, filename, in.edge.word_timings)]
    ELSE IF ~in.gtts.raised
    THEN [raised |-> FALSE, use_gtts |-> TRUE,
          result |-> GTTSResult(in.text, filename, in.gtts.duration)]
    ELSE [raised |-> TRUE, use_gtts |-> TRUE, result |-> NoResult]

\* a variant that leaves the punchline segments where they are
ShiftSegment_NoShift(segment, offset) == segment

\* tts_generator.py:261-266
ShiftSegment(segment, offset) ==
    TTSSegment(segment.text,
               RAdd(segment.start_time, offset),
               RAdd(segment.end_time, offset),
               segment.origin)

\* tts_generator.py:257-294
CombineWithPause(setup_r, punchline_r, pause, filename) ==
    LET offset == RAdd(setup_r.total_duration, pause)
    IN  [audio_file |-> filename,
         segments |->
            setup_r.segments \o
            [k \in 1..Len(punchline_r.segments) |->
                ShiftSegment(punchline_r.segments[k], offset)],
         total_duration |-> RAdd(offset, punchline_r.total_duration)]

----------------------------------------------------------------------------
(* VideoComposer.create_tweet_clips, called by compose_video *)

RMax(a, b) == IF RLess(a, b) THEN b ELSE a

\* a variant that adds no padding to the narration
VideoDuration_NoPadding(audio_duration) ==
    RMax(Rat(10, 1), audio_duration)

\* a variant without the floor
VideoDuration_NoFloor(audio_duration) ==
    RAdd(audio_duration, Rat(2, 1))

\* video_composer.py:363-365
VideoDuration(audio_duration) ==
    RMax(Rat(10, 1), RAdd(audio_duration, Rat(2, 1)))

\* a variant that shows only the current segment on each card
AccumulateText_Reset(accumulated_text, segment_text) ==
    segment_text \o <<"\n">>

\* accumulated_text += segment.text + "\n"
AccumulateText(accumulated_text, segment_text) ==
    accumulated_text \o segment_text \o <<"\n">>

\* a variant that shows each card while its own segment is spoken
ClipDuration_OfSegment(segs, i, video_duration) ==
    RSub(segs[i].end_time, segs[i].start_time)

\* video_composer.py:303-306
ClipDuration(segs, i, video_duration) ==
    IF i + 1 <= Len(segs)
    THEN RSub(segs[i + 1].start_time, segs[i].start_time)
    ELSE RSub(video_duration, segs[i].start_time)

RECURSIVE TweetClipsLoop(_, _, _, _, _)
TweetClipsLoop(segs, video_duration, i, accumulated_text, acc) ==
    IF i > Len(segs) THEN acc
    ELSE LET accumulated1 == AccumulateText(accumulated_text, segs[i].text)
             is_last == (i = Len(segs))
             duration == ClipDuration(segs, i, video_duration)
         IN  TweetClipsLoop(segs, video_duration, i + 1, accumulated1,
                            Append(acc, [card_text |-> Strip(accumulated1),
                                         highlight_last |-> is_last,
                                         duration |-> duration,
                                         start |-> segs[i].start_time]))

CreateTweetClips(segs, video_duration) ==
    TweetClipsLoop(segs, video_duration, 1, <<>>, <<>>)

----------------------------------------------------------------------------
(* Specification Spec: narration jobs of one bot, one after the other.     *)
(* RedditVideoBot.generate_audio calls generate_with_pause when the joke   *)
(* has a punchline and generate_speech otherwise; the composer then builds *)
(* the card clips. The TTSGenerator and its _use_gtts flag live as long as *)
(* the bot.                                                                *)

\* longest word-boundary event list of one synthesis call
MaxJobWords == 2
\* longest narration text (in characters) of one synthesis call
MaxJobLen == 3
\* longest measured audio duration of one fallback synthesis, whole seconds
MaxJobDur == 1

JobWordTexts == { <<"a">>, <<"b", ".">> }

JobChunkShapes == [text : JobWordTexts, gap : {0, Tick}, duration : {Tick}]

JobWordTimingLists ==
    { WordTimingsOf(ChunksOf(sh)) :
        sh \in UNION { [1..k -> JobChunkShapes] : k \in 0..MaxJobWords } }

JobAlphabet == {"a", ".", " "}

\* a narration text has at least one word: neither engine returns audio for
\* a text without one
SpeakableTexts ==
    { t \in UNION { [1..k -> JobAlphabet] : k \in 1..MaxJobLen } : Split(t) /= <<>> }

NotCalled == [raised |-> TRUE, word_timings |-> <<>>, duration |-> Zero]

EdgeOutcomes ==
    {[raised |-> TRUE, word_timings |-> <<>>]}
        \cup [raised : {FALSE}, word_timings : JobWordTimingLists]

GTTSOutcomes ==
    {[raised |-> TRUE, duration |-> Zero]}
        \cup [raised : {FALSE},
              duration : { Rat(1000 * k, 1000) : k \in 1..MaxJobDur }]

\* the inputs of one generate_speech call entered with flag `use`: the text
\* and the behaviour of each engine that the call reaches. When the primary
\* engine reports words, the text is the words it spoke.
SpeechInputs(use) ==
    IF use
    THEN [text : SpeakableTexts, edge : {NotCalled}, gtts : GTTSOutcomes]
    ELSE [text : SpeakableTexts,
          edge : {[raised |-> TRUE, word_timings |-> <<>>]},
          gtts : GTTSOutcomes]
         \cup [text : SpeakableTexts,
               edge : {[raised |-> FALSE, word_timings |-> <<>>]},
               gtts : {NotCalled}]
         \cup { [text |-> JoinWith(WordTextsOf(wt), <<" ">>),
                 edge |-> [raised |-> FALSE, word_timings |-> wt],
                 gtts |-> NotCalled] : wt \in JobWordTimingLists \ {<<>>} }

\* pause_duration = 1.0, passed by generate_audio (main.py:126)
PauseDurations == {Rat(1, 1)}

Init ==
    /\ pc = "start"
    /\ text = <<>>
    /\ word_timings = <<>>
    /\ total_duration = Zero
    /\ segments = <<>>
    /\ use_gtts = FALSE
    /\ pause_duration = Zero
    /\ setup_result = NoResult
    /\ punchline_result = NoResult
    /\ tts_result = NoResult
    /\ clips = <<>>
    /\ ComposerIdle
    /\ BotIdle
    /\ UploaderIdle
    /\ bots = <<>>
    /\ engines = NoEngines
    /\ CardsIdle

\* generate_speech(full_text) for a joke without punchline (main.py:130-133)
CallGenerateSpeech ==
    /\ pc = "start"
    /\ \E in \in SpeechInputs(use_gtts) :
         LET r == GenerateSpeech(in, "joke.mp3", use_gtts)
         IN  /\ use_gtts' = r.use_gtts
             /\ tts_result' = r.result
             /\ pc' = IF r.raised THEN "tts_failed" ELSE "tts_done"
    /\ UNCHANGED <<pause_duration, setup_result, punchline_result, clips>>
    /\ UNCHANGED funvars
    /\ UNCHANGED <<compvars, botvars>>
    /\ UNCHANGED <<uploadvars, bots, engines, cardvars>>

\* generate_with_pause(setup, punchline, pause_duration) (main.py:122-128)
CallGenerateWithPause ==
    /\ pc = "start"
    /\ \E pause \in PauseDurations :
       \E in1 \in SpeechInputs(use_gtts) :
         LET r1 == GenerateSpeech(in1, "temp_setup.mp3", use_gtts)
         IN  IF r1.raised
             THEN /\ use_gtts' = r1.use_gtts
                  /\ pause_duration' = pause
                  /\ pc' = "tts_failed"
                  /\ UNCHANGED <<setup_result, punchline_result, tts_result>>
             ELSE \E in2 \in SpeechInputs(r1.use_gtts) :
                    LET r2 == GenerateSpeech(in2, "temp_punchline.mp3", r1.use_gtts)
                    IN  /\ use_gtts' = r2.use_gtts
                        /\ pause_duration' = pause
                        /\ setup_result' = r1.result
                        /\ punchline_result' = r2.result
                        /\ tts_result' =
                             IF r2.raised THEN NoResult
                             ELSE CombineWithPause(r1.result, r2.result,
                                                   pause, "joke.mp3")
                        /\ pc' = IF r2.raised THEN "tts_failed" ELSE "tts_done"
    /\ UNCHANGED clips
    /\ UNCHANGED funvars
    /\ UNCHANGED <<compvars, botvars>>
    /\ UNCHANGED <<uploadvars, bots, engines, cardvars>>

\* compose_video -> create_tweet_clips on the job's TTSResult
CallCreateTweetClips ==
    /\ pc = "tts_done"
    /\ clips' = CreateTweetClips(tts_result.segments,
                                 VideoDuration(tts_result.total_duration))
    /\ pc' = "clips_done"
    /\ UNCHANGED <<use_gtts, pause_duration, setup_result, punchline_result,
                   tts_result>>
    /\ UNCHANGED funvars
    /\ UNCHANGED <<compvars, botvars>>
    /\ UNCHANGED <<uploadvars, bots, engines, cardvars>>

\* the next job of the batch (main.py:295-307), same bot and generator; an
\* exception of generate_audio is caught nowhere and ends the batch
NextJob ==
    /\ pc = "clips_done"
    /\ pc' = "start"
    /\ pause_duration' = Zero
    /\ setup_result' = NoResult
    /\ punchline_result' = NoResult
    /\ tts_result' = NoResult
    /\ clips' = <<>>
    /\ UNCHANGED use_gtts
    /\ UNCHANGED funvars
    /\ UNCHANGED <<compvars, botvars>>
    /\ UNCHANGED <<uploadvars, bots, engines, cardvars>>

Next ==
    \/ CallGenerateSpeech
    \/ CallGenerateWithPause
    \/ CallCreateTweetClips
    \/ NextJob

Spec == Init /\ [][Next]_vars

----------------------------------------------------------------------------
(* Specification SpeechSpec: one call of generate_speech on its own, with  *)
(* the text, the flag _use_gtts on entry and the behaviour of both engines *)
(* fixed beforehand.                                                       *)

SpeechInit ==
    /\ pc = "generate_speech"
    /\ use_gtts \in BOOLEAN
    /\ \E in \in SpeechInputs(use_gtts) :
         /\ text = in.text
         /\ engines = [edge |-> in.edge, gtts |-> in.gtts]
    /\ CardsIdle
    /\ word_timings = <<>>
    /\ total_duration = Zero
    /\ segments = <<>>
    /\ pause_duration = Zero
    /\ setup_result = NoResult
    /\ punchline_result = NoResult
    /\ tts_result = NoResult
    /\ clips = <<>>
    /\ ComposerIdle
    /\ BotIdle
    /\ UploaderIdle
    /\ bots = <<>>

SpeechFrame ==
    UNCHANGED <<text, word_timings, total_duration, segments, pause_duration,
                setup_result, punchline_result, clips, compvars, botvars,
                uploadvars, bots, engines, cardvars>>

\* generate_speech(text) returns a result (tts_generator.py:52-77)
SpeechReturns ==
    /\ pc = "generate_speech"
    /\ LET r == GenerateSpeech([text |-> text, edge |-> engines.edge,
                                gtts |-> engines.gtts],
                               "speech.mp3", use_gtts)
       IN  /\ ~r.raised
           /\ use_gtts' = r.use_gtts
           /\ tts_result' = r.result
           /\ pc' = "speech_returned"
    /\ SpeechFrame

\* generate_speech(text) raises
SpeechRaises ==
    /\ pc = "generate_speech"
    /\ LET r == GenerateSpeech([text |-> text, edge |-> engines.edge,
                                gtts |-> engines.gtts],
                               "speech.mp3", use_gtts)
       IN  /\ r.raised
           /\ use_gtts' = r.use_gtts
           /\ tts_result' = r.result
           /\ pc' = "speech_raised"
    /\ SpeechFrame

SpeechNext == SpeechReturns \/ SpeechRaises

SpeechSpec == SpeechInit /\ [][SpeechNext]_vars

----------------------------------------------------------------------------
(* VideoComposer.compose_video and RedditVideoBot.generate_video *)

RDiv(a, b) == Rat(a.num * b.den, a.den * b.num)

\* int(x) for x >= 0
RInt(a) == a.num \div a.den

\* a variant that forgets the extra copy
NLoops_NoExtraCopy(clip_duration, target_duration) ==
    IF RLess(clip_duration, target_duration)
    THEN RInt(RDiv(target_duration, clip_duration))
    ELSE 1

\* video_composer.py:343-345: the number of copies of the source clip
NLoops(clip_duration, target_duration) ==
    IF RLess(clip_duration, target_duration)
    THEN RInt(RDiv(target_duration, clip_duration)) + 1
    ELSE 1

\* prepare_background, durations only: the looped clip is cut by
\* clip.subclip(0, target_duration)
PrepareBackground(clip_duration, target_duration) ==
    LET n_loops == NLoops(clip_duration, target_duration)
    IN  [n_loops |-> n_loops,
         looped_duration |-> RMul(Rat(n_loops, 1), clip_duration),
         duration |-> target_duration]

\* the sound files that exist on disk
SoundFiles == {"boing.mp3"}

\* os.path.exists(sound_effect_path)
OsPathExists(path) == path \in SoundFiles

\* a variant that triggers the sound at the start of the video
DefaultSoundEffectTime_Zero(time, segs) ==
    IF time = None THEN Some(Zero) ELSE time

\* video_composer.py:381-382
DefaultSoundEffectTime(time, segs) ==
    IF time = None /\ segs /= <<>>
    THEN Some(segs[Len(segs)].start_time)
    ELSE time

\* a variant in which the sound effect replaces the narration
AudioClips_SfxReplaces(tts_audio, sfx) ==
    IF sfx = <<>> THEN <<tts_audio>> ELSE sfx

\* video_composer.py:377, 385: audio_clips = [tts_audio] (+ [sfx])
AudioClips(tts_audio, sfx) == <<tts_audio>> \o sfx

\* video_composer.py:376-387: the clips handed to CompositeAudioClip
ComposeAudio(result, path, time) ==
    LET tts_audio == [clip |-> result.audio_file, start |-> Zero,
                      volume |-> Rat(1, 1)]
        use_sfx == path /= None /\ OsPathExists(path[1])
        sfx_time == IF use_sfx
                    THEN DefaultSoundEffectTime(time, result.segments)
                    ELSE time
        sfx == IF use_sfx /\ sfx_time /= None
               THEN <<[clip |-> path[1], start |-> sfx_time[1],
                       volume |-> Rat(1, 2)]>>
               ELSE <<>>
    IN  AudioClips(tts_audio, sfx)

\* compose_video with background_path = None; bg is the duration of the
\* video picked by get_random_background (None: the directory holds none),
\* fails tells whether write_videofile raises
ComposeVideo(result, path, time, bg, fails) ==
    LET total == VideoDuration(result.total_duration)
    IN  IF bg = None
        THEN [NoVideo EXCEPT !.status = "no_background"]
        ELSE LET background == PrepareBackground(bg[1], total)
             IN  [status |-> IF fails THEN "encode_failed" ELSE "written",
                  total_duration |-> total,
                  n_loops |-> background.n_loops,
                  background_duration |-> background.duration,
                  audio_clips |-> ComposeAudio(result, path, time),
                  tweet_clips |-> CreateTweetClips(result.segments, total)]

\* a variant that triggers the sound with the first card
PunchlineTime_FirstSegment(result) ==
    IF result.segments /= <<>>
    THEN Some(result.segments[1].start_time)
    ELSE None

\* main.py:149-152
PunchlineTime(result) ==
    IF result.segments /= <<>>
    THEN Some(result.segments[Len(result.segments)].start_time)
    ELSE None

\* audio_mixer.py:32-56: a file of the directory listing, or None
GetSoundEffect(listing) ==
    IF listing = {} THEN {None} ELSE { Some(f) : f \in listing }

----------------------------------------------------------------------------
(* Specification ComposeSpec: one composition of a narration result, by    *)
(* compose_video called directly with any sound-effect arguments, or by    *)
(* generate_video.                                                         *)

\* most segments of a narration result handed to the composer
MaxSegs == 3
\* longest narration handed to the composer, in half seconds
MaxNarrationHalves == 22
\* longest background video, in whole seconds
MaxBgDur == 11

RECURSIVE StartsOf(_, _)
StartsOf(gaps, i) ==
    IF i <= 1 THEN Zero ELSE RAdd(StartsOf(gaps, i - 1), gaps[i])

\* segment lists that start at 0 and follow each other after 0.5 s or 1 s
ComposerSegmentLists ==
    { [i \in 1..Len(gaps) |->
          TTSSegment(<<"a">>, StartsOf(gaps, i),
                     RAdd(StartsOf(gaps, i), Rat(1, 2)), "timings")] :
        gaps \in UNION { [1..k -> {Rat(1, 2), Rat(1, 1)}] : k \in 0..MaxSegs } }

ComposerResults ==
    [audio_file : {"joke.mp3"},
     segments : ComposerSegmentLists,
     total_duration : { Rat(k, 2) : k \in 0..MaxNarrationHalves }]

BackgroundDirs == {{}} \cup { {Rat(k, 1)} : k \in 1..MaxBgDur }

ComposeInit ==
    /\ tts_result \in ComposerResults
    /\ backgrounds \in BackgroundDirs
    /\ encoder_fails \in BOOLEAN
    /\ \/ /\ pc = "compose_video"
          /\ sound_effect_path \in {None, Some("boing.mp3"), Some("gone.mp3")}
          /\ sound_effect_time \in {None, Some(Rat(1, 1))}
       \/ /\ pc = "generate_video"
          /\ sound_effect_path = None
          /\ sound_effect_time = None
    /\ video = NoVideo
    /\ text = <<>>
    /\ word_timings = <<>>
    /\ total_duration = Zero
    /\ segments = <<>>
    /\ use_gtts = FALSE
    /\ pause_duration = Zero
    /\ setup_result = NoResult
    /\ punchline_result = NoResult
    /\ clips = <<>>
    /\ BotIdle
    /\ UploaderIdle
    /\ bots = <<>>
    /\ engines = NoEngines
    /\ CardsIdle

PickBackground == IF backgrounds = {} THEN {None} ELSE { Some(d) : d \in backgrounds }

\* compose_video(tts_result, sound_effect_path=..., sound_effect_time=...)
CallComposeVideo ==
    /\ pc = "compose_video"
    /\ \E bg \in PickBackground :
         video' = ComposeVideo(tts_result, sound_effect_path, sound_effect_time,
                               bg, encoder_fails)
    /\ pc' = "composed"
    /\ UNCHANGED <<backgrounds, sound_effect_path, sound_effect_time,
                   encoder_fails>>
    /\ UNCHANGED <<funvars, jobvars, botvars>>
    /\ UNCHANGED <<uploadvars, bots, engines, cardvars>>

\* generate_video(joke, tts_result) (main.py:138-164)
CallGenerateVideo ==
    /\ pc = "generate_video"
    /\ \E listing \in {{}, {"boing.mp3"}, {"gone.mp3"}} :
       \E sfx_path \in GetSoundEffect(listing) :
       \E bg \in PickBackground :
         /\ sound_effect_path' = sfx_path
         /\ sound_effect_time' = PunchlineTime(tts_result)
         /\ video' = ComposeVideo(tts_result, sfx_path, PunchlineTime(tts_result),
                                  bg, encoder_fails)
    /\ pc' = "video_generated"
    /\ UNCHANGED <<backgrounds, encoder_fails>>
    /\ UNCHANGED <<funvars, jobvars, botvars>>
    /\ UNCHANGED <<uploadvars, bots, engines, cardvars>>

ComposeNext == CallComposeVideo \/ CallGenerateVideo

ComposeSpec == ComposeInit /\ [][ComposeNext]_vars

----------------------------------------------------------------------------
(* Specification BotSpec: main runs a batch of count jobs on one bot. Each *)
(* job is one call of run_pipeline, taken step by step: fetch_joke,        *)
(* generate_audio, generate_video, the ledger entry, the upload. A step    *)
(* that raises outside the try of the upload step ends run_pipeline and,   *)
(* with no handler in main, the batch (pc = "crashed").                    *)

\* number of distinct post ids the content source can return
MaxPosts == 3
\* largest --count
MaxCount == 3

PostIds == 1..MaxPosts

Range(f) == { f[i] : i \in DOMAIN f }

\* the ledger file left by an earlier run of the bot, None: no file yet
PriorLedgers ==
    {None,
     Some([generated_posts |-> <<1>>, uploaded_videos |-> <<>>]),
     Some([generated_posts |-> <<1>>,
           uploaded_videos |-> <<[post_id |-> 1, youtube_id |-> 1,
                                  timestamp |-> 0]>>])}

\* main.py:71-76
LoadHistory(file) == IF file = None THEN EmptyHistory ELSE file[1]

\* a variant that asks the list of uploads instead
IsAlreadyGenerated_Uploaded(h, post_id) ==
    \E i \in DOMAIN h.uploaded_videos : h.uploaded_videos[i].post_id = post_id

\* main.py:83-85
IsAlreadyGenerated(h, post_id) == post_id \in Range(h.generated_posts)

\* main.py:106-112: the first joke of the list not yet generated, else None
RECURSIVE FirstFresh(_, _)
FirstFresh(jokes, h) ==
    IF jokes = <<>> THEN None
    ELSE IF ~IsAlreadyGenerated(h, Head(jokes)) THEN Some(Head(jokes))
    ELSE FirstFresh(Tail(jokes), h)

\* a variant that never looks at the ledger
FetchJoke_NoCheck(top, jokes, h) == top

\* fetch_joke: top is what get_top_joke returns, jokes what
\* get_multiple_jokes returns
FetchJoke(top, jokes, h) ==
    IF top = None THEN None
    ELSE IF IsAlreadyGenerated(h, top[1]) THEN FirstFresh(jokes, h)
    ELSE top

\* reddit_scraper.py:260-281: lists of jokes with distinct ids
JokeLists ==
    { js \in UNION { [1..k -> PostIds] : k \in 0..MaxPosts } :
        \A i, j \in DOMAIN js : i /= j => js[i] /= js[j] }

\* a variant that returns the path although no video was written
GenerateVideoResult_AlwaysPath(status, post_id) == Some(post_id)

\* generate_video returns output/<post_id>.mp4 when compose_video wrote the
\* video; otherwise compose_video raised (None)
GenerateVideoResult(status, post_id) ==
    IF status = "written" THEN Some(post_id) ELSE None

\* main.py:234: self.history["generated_posts"].append(joke.post_id)
AppendGenerated(h, post_id) ==
    [h EXCEPT !.generated_posts = Append(@, post_id)]

\* a variant that keeps only the latest upload
AppendUploaded_Overwrite(h, post_id, youtube_id, timestamp) ==
    [h EXCEPT !.uploaded_videos =
        <<[post_id |-> post_id, youtube_id |-> youtube_id,
           timestamp |-> timestamp]>>]

\* main.py:251-255
AppendUploaded(h, post_id, youtube_id, timestamp) ==
    [h EXCEPT !.uploaded_videos =
        Append(@, [post_id |-> post_id, youtube_id |-> youtube_id,
                   timestamp |-> timestamp])]

\* main.py:237-242, 248-249, 259: the dict run_pipeline returns
JobResult(post_id, path, youtube_id, upload_error) ==
    [post_id |-> post_id, video_path |-> path, youtube_id |-> youtube_id,
     upload_error |-> upload_error]

BotInit ==
    /\ pc = "main"
    /\ history_file \in PriorLedgers
    /\ history = LoadHistory(history_file)
    /\ videos = Range(history.generated_posts)
    /\ count \in 0..MaxCount
    /\ upload \in BOOLEAN
    /\ job = 0
    /\ joke = None
    /\ video_path = None
    /\ results = <<>>
    /\ stages = <<>>
    /\ text = <<>>
    /\ word_timings = <<>>
    /\ total_duration = Zero
    /\ segments = <<>>
    /\ use_gtts = FALSE
    /\ pause_duration = Zero
    /\ setup_result = NoResult
    /\ punchline_result = NoResult
    /\ tts_result = NoResult
    /\ clips = <<>>
    /\ ComposerIdle
    /\ UploaderIdle
    /\ bots = <<>>
    /\ engines = NoEngines
    /\ CardsIdle

\* the job returns value to main, which goes on with the loop
ReturnToMain(value) ==
    /\ results' = Append(results, value)
    /\ joke' = None
    /\ video_path' = None
    /\ pc' = "main"

\* main.py:295-300 and run_pipeline step 1 (main.py:217-220)
RunFetchJoke ==
    /\ pc = "main"
    /\ job < count
    /\ job' = job + 1
    /\ stages' = <<"fetch">>
    /\ \E top \in {None} \cup { Some(p) : p \in PostIds } :
       \E jokes \in JokeLists :
         LET fetched == FetchJoke(top, jokes, history)
         IN  IF fetched = None
             THEN ReturnToMain(None)
             ELSE /\ joke' = fetched
                  /\ pc' = "fetched"
                  /\ UNCHANGED <<video_path, results>>
    /\ UNCHANGED <<history, history_file, videos, count, upload>>
    /\ UNCHANGED <<funvars, jobvars, compvars>>
    /\ UNCHANGED <<uploadvars, bots, engines, cardvars>>

\* run_pipeline step 2 (main.py:227-228); generate_audio raises when both
\* engines fail
RunGenerateAudio ==
    /\ pc = "fetched"
    /\ \E raised \in BOOLEAN :
         pc' = IF raised THEN "crashed" ELSE "audio_done"
    /\ stages' = Append(stages, "synthesize")
    /\ UNCHANGED <<history, history_file, videos, count, upload, job, joke,
                   video_path, results>>
    /\ UNCHANGED <<funvars, jobvars, compvars>>
    /\ UNCHANGED <<uploadvars, bots, engines, cardvars>>

\* a variant that composes again after a failure
AfterGenerateVideo_Retry(path) ==
    IF path = None THEN "audio_done" ELSE "video_done"

\* where run_pipeline is after generate_video: at the ledger entry, or gone
\* with the exception generate_video raised
AfterGenerateVideo(path) ==
    IF path = None THEN "crashed" ELSE "video_done"

\* run_pipeline step 3 (main.py:230-231); compose_video raises when there
\* is no background video or the encoder fails
RunGenerateVideo ==
    /\ pc = "audio_done"
    /\ \E status \in {"written", "no_background", "encode_failed"} :
         LET path == GenerateVideoResult(status, joke[1])
         IN  /\ videos' = IF status = "written"
                          THEN videos \cup {joke[1]} ELSE videos
             /\ video_path' = path
             /\ pc' = AfterGenerateVideo(path)
    /\ stages' = Append(stages, "compose")
    /\ UNCHANGED <<history, history_file, count, upload, job, joke, results>>
    /\ UNCHANGED <<funvars, jobvars, compvars>>
    /\ UNCHANGED <<uploadvars, bots, engines, cardvars>>

\* main.py:233-242, and the return when upload is off (main.py:245, 265)
RunRecordGenerated ==
    /\ pc = "video_done"
    /\ history' = AppendGenerated(history, joke[1])
    /\ history_file' = Some(history')
    /\ stages' = Append(stages, "record")
    /\ IF upload
       THEN /\ pc' = "upload"
            /\ UNCHANGED <<joke, video_path, results>>
       ELSE ReturnToMain(Some(JobResult(joke[1], video_path[1], None, FALSE)))
    /\ UNCHANGED <<videos, count, upload, job>>
    /\ UNCHANGED <<funvars, jobvars, compvars>>
    /\ UNCHANGED <<uploadvars, bots, engines, cardvars>>

\* run_pipeline step 4 (main.py:245-259): any exception of the upload is
\* caught and reported in the result
RunUpload ==
    /\ pc = "upload"
    /\ stages' = Append(stages, "publish")
    /\ \/ LET youtube_id == Len(history.uploaded_videos) + 1
          IN  /\ history' = AppendUploaded(history, joke[1], youtube_id, job)
              /\ history_file' = Some(history')
              /\ ReturnToMain(Some(JobResult(joke[1], video_path[1],
                                             Some(youtube_id), FALSE)))
       \/ /\ UNCHANGED <<history, history_file>>
          /\ ReturnToMain(Some(JobResult(joke[1], video_path[1], None, TRUE)))
    /\ UNCHANGED <<videos, count, upload, job>>
    /\ UNCHANGED <<funvars, jobvars, compvars>>
    /\ UNCHANGED <<uploadvars, bots, engines, cardvars>>

\* main.py:295: the loop is over
EndBatch ==
    /\ pc = "main"
    /\ job = count
    /\ pc' = "batch_done"
    /\ UNCHANGED botvars
    /\ UNCHANGED <<funvars, jobvars, compvars>>
    /\ UNCHANGED <<uploadvars, bots, engines, cardvars>>

BotNext ==
    \/ RunFetchJoke
    \/ RunGenerateAudio
    \/ RunGenerateVideo
    \/ RunRecordGenerated
    \/ RunUpload
    \/ EndBatch

BotSpec == BotInit /\ [][BotNext]_vars

----------------------------------------------------------------------------
(* Two bot processes on one history file (main.py:67-85, 233-256) *)

\* the processes started on the same history file
Bots == {1, 2}

\* most run_pipeline calls the two processes start between them
MaxSharedJobs == 3

\* a process that python has not started yet
NotStarted ==
    [pc |-> "start", history |-> EmptyHistory, loaded |-> EmptyHistory,
     job |-> 0, joke |-> None, made |-> <<>>]

\* the entries of list a that list b lacks, in order
RECURSIVE Missing(_, _)
Missing(a, b) ==
    IF a = <<>> THEN <<>>
    ELSE IF Head(a) \in Range(b) THEN Missing(Tail(a), b)
    ELSE <<Head(a)>> \o Missing(Tail(a), b)

\* a variant that reads the file first and adds to what it holds
SaveHistory_Merge(h, file) ==
    LET old == LoadHistory(file)
    IN  Some([generated_posts |->
                  old.generated_posts
                      \o Missing(h.generated_posts, old.generated_posts),
              uploaded_videos |->
                  old.uploaded_videos
                      \o Missing(h.uploaded_videos, old.uploaded_videos)])

\* main.py:78-81: open(..., 'w') and json.dump(self.history, f); the new
\* file is the in-memory ledger whatever the file held
SaveHistory(h, file) == Some(h)

\* what fetch_joke can return to a process whose ledger is h, over all that
\* the scraper can hand it
FetchOutcomes(h) ==
    { FetchJoke(top, jokes, h) :
        top \in {None} \cup { Some(p) : p \in PostIds }, jokes \in JokeLists }

SharedInit ==
    /\ pc = "shared"
    /\ history_file \in PriorLedgers
    /\ videos = Range(LoadHistory(history_file).generated_posts)
    /\ count = MaxSharedJobs
    /\ upload \in BOOLEAN
    /\ bots = [b \in Bots |-> NotStarted]
    /\ history = EmptyHistory
    /\ job = 0
    /\ joke = None
    /\ video_path = None
    /\ results = <<>>
    /\ stages = <<>>
    /\ text = <<>>
    /\ word_timings = <<>>
    /\ total_duration = Zero
    /\ segments = <<>>
    /\ use_gtts = FALSE
    /\ pause_duration = Zero
    /\ setup_result = NoResult
    /\ punchline_result = NoResult
    /\ tts_result = NoResult
    /\ clips = <<>>
    /\ ComposerIdle
    /\ UploaderIdle
    /\ engines = NoEngines
    /\ CardsIdle

RECURSIVE SumJobs(_)
SumJobs(bs) ==
    IF bs = {} THEN 0
    ELSE LET b == CHOOSE x \in bs : TRUE
         IN  bots[b].job + SumJobs(bs \ {b})

\* the run_pipeline calls started so far, over all processes
JobsStarted == SumJobs(Bots)

\* what a step of one process leaves alone
SharedFrame ==
    /\ UNCHANGED <<pc, history, count, upload, job, joke, video_path,
                   results, stages>>
    /\ UNCHANGED <<funvars, jobvars, compvars>>
    /\ UNCHANGED <<uploadvars, engines, cardvars>>

\* main.py:282 and __init__ (main.py:67-69): the ledger is read here and
\* nowhere else
Construct(b) ==
    /\ bots[b].pc = "start"
    /\ LET h == LoadHistory(history_file)
       IN  bots' = [bots EXCEPT ![b].pc = "main", ![b].history = h,
                                ![b].loaded = h]
    /\ UNCHANGED <<history_file, videos>>
    /\ SharedFrame

\* main.py:295-300 and run_pipeline step 1 (main.py:217-220)
BotFetchJoke(b) ==
    /\ bots[b].pc = "main"
    /\ bots[b].job < count
    /\ JobsStarted < MaxSharedJobs
    /\ \E fetched \in FetchOutcomes(bots[b].history) :
         bots' = [bots EXCEPT
                    ![b].job = @ + 1,
                    ![b].joke = fetched,
                    ![b].pc = IF fetched = None THEN "main" ELSE "fetched"]
    /\ UNCHANGED <<history_file, videos>>
    /\ SharedFrame

\* run_pipeline steps 2 and 3 (main.py:227-231): the video is written to
\* output/<post_id>.mp4, or one of the two calls raises
BotGenerate(b) ==
    /\ bots[b].pc = "fetched"
    /\ \/ /\ videos' = videos \cup {bots[b].joke[1]}
          /\ bots' = [bots EXCEPT ![b].pc = "video_done",
                                  ![b].made = Append(@, bots[b].joke[1])]
       \/ /\ bots' = [bots EXCEPT ![b].pc = "crashed"]
          /\ UNCHANGED videos
    /\ UNCHANGED history_file
    /\ SharedFrame

\* main.py:233-235, and the return when upload is off (main.py:245, 265)
BotRecordGenerated(b) ==
    /\ bots[b].pc = "video_done"
    /\ LET h == AppendGenerated(bots[b].history, bots[b].joke[1])
       IN  /\ history_file' = SaveHistory(h, history_file)
           /\ bots' = [bots EXCEPT
                         ![b].history = h,
                         ![b].pc = IF upload THEN "upload" ELSE "main",
                         ![b].joke = IF upload THEN @ ELSE None]
    /\ UNCHANGED videos
    /\ SharedFrame

\* run_pipeline step 4 (main.py:245-259)
BotUpload(b) ==
    /\ bots[b].pc = "upload"
    /\ \/ LET youtube_id == Len(bots[b].history.uploaded_videos) + 1
              h == AppendUploaded(bots[b].history, bots[b].joke[1],
                                  youtube_id, bots[b].job)
          IN  /\ history_file' = SaveHistory(h, history_file)
              /\ bots' = [bots EXCEPT ![b].history = h, ![b].pc = "main",
                                      ![b].joke = None]
       \/ /\ bots' = [bots EXCEPT ![b].pc = "main", ![b].joke = None]
          /\ UNCHANGED history_file
    /\ UNCHANGED videos
    /\ SharedFrame

\* main.py:295: the loop of this process is over
BotEndBatch(b) ==
    /\ bots[b].pc = "main"
    /\ bots[b].job = count
    /\ bots' = [bots EXCEPT ![b].pc = "batch_done"]
    /\ UNCHANGED <<history_file, videos>>
    /\ SharedFrame

SharedNext ==
    \E b \in Bots :
        \/ Construct(b)
        \/ BotFetchJoke(b)
        \/ BotGenerate(b)
        \/ BotRecordGenerated(b)
        \/ BotUpload(b)
        \/ BotEndBatch(b)

SharedSpec == SharedInit /\ [][SharedNext]_vars

----------------------------------------------------------------------------
(* Specification UploadSpec: one call of YouTubeUploader.upload_video. The *)
(* resumable upload sends the video chunk by chunk; each turn of the while *)
(* loop is one call of request.next_chunk(), which sends a chunk or        *)
(* raises. The loop keeps running, so the specification is weakly fair.    *)

\* largest number of chunks of a video
MaxChunks == 3

\* youtube_uploader.py:222
max_retries == 3

HttpError(status) == [type |-> "HttpError", status |-> status]

\* exceptions without an HTTP status
OtherError(type) == [type |-> type, status |-> 0]

\* what request.next_chunk() can raise: an HttpError of some status, or an
\* exception of the transport
ChunkErrors ==
    { HttpError(st) : st \in {403, 500, 501, 502, 503, 504} }
        \cup {OtherError("ConnectionError")}

\* a variant that retries on every 5xx status
IsRetryable_Any5xx(e) ==
    e.type = "HttpError" /\ e.status \in 500..599

\* youtube_uploader.py:229-230: except HttpError ... status in [500, 502,
\* 503, 504]
IsRetryable(e) ==
    e.type = "HttpError" /\ e.status \in {500, 502, 503, 504}

\* a variant that starts a new budget with every chunk sent
RetryCountAfterChunk_Reset(count_so_far) == 0

\* youtube_uploader.py:225-228: a chunk that was sent leaves retry_count as
\* it is
RetryCountAfterChunk(count_so_far) == count_so_far

UploadInit ==
    /\ pc = "upload_video"
    /\ chunks_left \in 1..MaxChunks
    /\ retry_count = 0
    /\ response = None
    /\ upload_exc = None
    /\ errors = <<>>
    /\ text = <<>>
    /\ word_timings = <<>>
    /\ total_duration = Zero
    /\ segments = <<>>
    /\ use_gtts = FALSE
    /\ pause_duration = Zero
    /\ setup_result = NoResult
    /\ punchline_result = NoResult
    /\ tts_result = NoResult
    /\ clips = <<>>
    /\ ComposerIdle
    /\ BotIdle
    /\ bots = <<>>
    /\ engines = NoEngines
    /\ CardsIdle

UploadFrame ==
    UNCHANGED <<funvars, jobvars, compvars, botvars, bots, engines,
                cardvars>>

\* youtube_uploader.py:172-222: the checks before the loop
CallUploadVideo ==
    /\ pc = "upload_video"
    /\ \E authenticated, video_exists \in BOOLEAN :
         IF ~authenticated
         THEN /\ upload_exc' = Some(OtherError("RuntimeError"))
              /\ pc' = "upload_raised"
         ELSE IF ~video_exists
         THEN /\ upload_exc' = Some(OtherError("FileNotFoundError"))
              /\ pc' = "upload_raised"
         ELSE /\ upload_exc' = None
              /\ pc' = "uploading"
    /\ UNCHANGED <<chunks_left, retry_count, response, errors>>
    /\ UploadFrame

\* one turn of the loop in which next_chunk sends a chunk; with the last
\* chunk it returns the response, the loop ends and upload_video returns
\* (youtube_uploader.py:224-228, 238-247)
ChunkSent ==
    /\ pc = "uploading"
    /\ response = None
    /\ chunks_left' = chunks_left - 1
    /\ retry_count' = RetryCountAfterChunk(retry_count)
    /\ IF chunks_left' = 0
       THEN /\ response' = Some("video_id")
            /\ pc' = "upload_returned"
       ELSE /\ response' = None
            /\ pc' = "uploading"
    /\ UNCHANGED <<upload_exc, errors>>
    /\ UploadFrame

\* one turn of the loop in which next_chunk raises
\* (youtube_uploader.py:229-236)
ChunkFailed ==
    /\ pc = "uploading"
    /\ response = None
    /\ \E e \in ChunkErrors :
         /\ errors' = Append(errors, [error |-> e, chunk |-> chunks_left])
         /\ IF IsRetryable(e) /\ retry_count < max_retries
            THEN /\ retry_count' = retry_count + 1
                 /\ UNCHANGED <<upload_exc, pc>>
            ELSE /\ upload_exc' = Some(e)
                 /\ pc' = "upload_raised"
                 /\ UNCHANGED retry_count
    /\ UNCHANGED <<chunks_left, response>>
    /\ UploadFrame

UploadNext == CallUploadVideo \/ ChunkSent \/ ChunkFailed

UploadSpec == UploadInit /\ [][UploadNext]_vars /\ WF_vars(UploadNext)

----------------------------------------------------------------------------
(* Specification CardSpec: VideoComposer.create_tweet_card, called up to   *)
(* MaxCalls times with the same arguments.                                 *)

\* video_composer.py:136
wrap_width == 32
\* video_composer.py:144-148, 152
line_height == 62
padding == 40
header_height == 90
footer_height == 70
shadow_offset == 8

\* the pieces of s that start at the indices in starts (1 among them), each
\* without its last drop characters, the last piece whole
PiecesAt(s, starts, drop) ==
    LET n == Cardinality(starts)
        start(k) == CHOOSE i \in starts :
                        Cardinality({ j \in starts : j < i }) = k - 1
    IN  [k \in 1..n |->
            IF k < n
            THEN SubSeq(s, start(k), start(k + 1) - 1 - drop)
            ELSE SubSeq(s, start(k), Len(s))]

\* str.split(sep) for a one-character sep
SplitOn(s, sep) ==
    PiecesAt(s, {1} \cup { i + 1 : i \in { j \in 1..Len(s) : s[j] = sep } }, 1)

\* TextWrapper._split: the maximal runs of whitespace and of other
\* characters
WrapChunks(s) ==
    IF s = <<>> THEN <<>>
    ELSE PiecesAt(s, {1} \cup { i \in 2..Len(s) :
                                  IsSpace(s[i]) /= IsSpace(s[i - 1]) }, 0)

ChunksLen(cs) == Len(Flatten(cs))

\* TextWrapper._wrap_chunks, inner loop: the chunks that fit on the line
RECURSIVE FillLine(_, _, _)
FillLine(chunks, cur_line, width) ==
    IF chunks /= <<>> /\ ChunksLen(cur_line) + Len(Head(chunks)) <= width
    THEN FillLine(Tail(chunks), Append(cur_line, Head(chunks)), width)
    ELSE [cur_line |-> cur_line, chunks |-> chunks]

\* TextWrapper._handle_long_word with break_long_words: a chunk longer than
\* the width gives the rest of the line its first characters
HandleLongWord(filled, width) ==
    IF filled.chunks /= <<>> /\ Len(Head(filled.chunks)) > width
    THEN LET space_left == width - ChunksLen(filled.cur_line)
             chunk == Head(filled.chunks)
         IN  [cur_line |-> Append(filled.cur_line, SubSeq(chunk, 1, space_left)),
              chunks |-> <<SubSeq(chunk, space_left + 1, Len(chunk))>>
                            \o Tail(filled.chunks)]
    ELSE filled

\* drop_whitespace: a line does not end with a whitespace chunk
DropTrailingWhitespace(cur_line) ==
    IF cur_line /= <<>> /\ Strip(cur_line[Len(cur_line)]) = <<>>
    THEN SubSeq(cur_line, 1, Len(cur_line) - 1)
    ELSE cur_line

\* TextWrapper._wrap_chunks, outer loop
RECURSIVE WrapLines(_, _, _)
WrapLines(chunks, lines, width) ==
    IF chunks = <<>> THEN lines
    ELSE LET chunks1 == IF Strip(Head(chunks)) = <<>> /\ lines /= <<>>
                        THEN Tail(chunks) ELSE chunks
             filled == HandleLongWord(FillLine(chunks1, <<>>, width), width)
             cur_line == DropTrailingWhitespace(filled.cur_line)
         IN  WrapLines(filled.chunks,
                       IF cur_line /= <<>>
                       THEN Append(lines, Flatten(cur_line)) ELSE lines,
                       width)

\* textwrap.TextWrapper(width).wrap(paragraph)
Wrap(paragraph, width) == WrapLines(WrapChunks(paragraph), <<>>, width)

\* video_composer.py:137-141
RECURSIVE WrappedLines(_)
WrappedLines(paragraphs) ==
    IF paragraphs = <<>> THEN <<>>
    ELSE (IF Strip(Head(paragraphs)) /= <<>>
          THEN Wrap(Strip(Head(paragraphs)), wrap_width) ELSE <<>>)
         \o WrappedLines(Tail(paragraphs))

Max(a, b) == IF a < b THEN b ELSE a

\* a variant without the least height of the body
TextHeight_NoFloor(n) == n * line_height

\* video_composer.py:147
TextHeight(n) == Max(n * line_height, 120)

\* video_composer.py:149
TotalHeight(n) == header_height + TextHeight(n) + footer_height + padding * 2

\* what create_tweet_card draws; views is the number random.randint(100,
\* 500) returns at video_composer.py:266
CreateTweetCard(t, args, views) ==
    LET lines == WrappedLines(SplitOn(t, "\n"))
    IN  [lines |-> lines,
         total_height |-> TotalHeight(Len(lines)),
         full_height |-> TotalHeight(Len(lines)) + shadow_offset * 2,
         bold_line |-> IF args.highlight_last THEN Len(lines) ELSE 0,
         letter |-> IF args.display_name /= <<>>
                    THEN args.display_name[1] ELSE "U",
         display_name |-> args.display_name,
         handle |-> args.handle,
         likes |-> args.likes,
         retweets |-> args.retweets,
         comments |-> args.comments,
         views |-> views]

\* most words of a paragraph of a card text, most calls
MaxParWords == 2
MaxCalls == 2

\* words of 1, 20 and 33 characters: the last is longer than a line
CardWords ==
    {[i \in 1..1 |-> "a"], [i \in 1..20 |-> "b"], [i \in 1..33 |-> "c"]}

CardParagraphs ==
    { JoinWith(ws, <<" ">>) :
        ws \in UNION { [1..k -> CardWords] : k \in 0..MaxParWords } }

\* card texts of one paragraph or of two
CardTexts ==
    CardParagraphs
        \cup { p \o <<"\n">> \o q : p \in CardParagraphs, q \in CardParagraphs }

CardArgs ==
    [highlight_last : BOOLEAN,
     display_name : {<<>>, <<"R", "e", "d">>},
     handle : {<<"@", "r">>},
     likes : {<<"1", "K">>},
     retweets : {<<"2", "K">>},
     comments : {<<"3">>}]

\* values of random.randint(100, 500) the model tells apart
ViewCounts == {100, 500}

CardInit ==
    /\ pc = "cards"
    /\ text \in CardTexts
    /\ card_args \in CardArgs
    /\ cards = <<>>
    /\ word_timings = <<>>
    /\ total_duration = Zero
    /\ segments = <<>>
    /\ use_gtts = FALSE
    /\ pause_duration = Zero
    /\ setup_result = NoResult
    /\ punchline_result = NoResult
    /\ tts_result = NoResult
    /\ clips = <<>>
    /\ ComposerIdle
    /\ BotIdle
    /\ UploaderIdle
    /\ bots = <<>>
    /\ engines = NoEngines

\* create_tweet_card(text, display_name, handle, likes, retweets, comments,
\* highlight_last)
CallCreateTweetCard ==
    /\ pc = "cards"
    /\ Len(cards) < MaxCalls
    /\ \E views \in ViewCounts :
         cards' = Append(cards, CreateTweetCard(text, card_args, views))
    /\ UNCHANGED <<pc, card_args>>
    /\ UNCHANGED <<funvars, jobvars, compvars, botvars, uploadvars, bots,
                   engines>>

CardNext == CallCreateTweetCard

CardSpec == CardInit /\ [][CardNext]_vars

----------------------------------------------------------------------------
(* Properties of the segmenter (SegSpec) *)

SegmentTexts == [k \in 1..Len(segments) |-> segments[k].text]

\* the words a segment's text shows
SegmentWords(k) == Split(segments[k].text)

\* index in word_timings of the first and of the last word of segment k,
\* counting the words the earlier segments show
FirstWordIndex(k) ==
    1 + SumSeq([j \in 1..(k - 1) |-> Len(SegmentWords(j))])

LastWordIndex(k) ==
    SumSeq([j \in 1..k |-> Len(SegmentWords(j))])

EndsSentence(w) == w /= <<>> /\ w[Len(w)] \in {".", "!", "?"}

SegmenterRan == pc = "segmenter_done" /\ word_timings /= <<>>

\* C1: for a non-empty word-timing list the segments partition the words:
\* the words of the segments' texts, taken in order, are exactly the input
\* words (none dropped, none duplicated), and the texts joined and
\* whitespace-normalized equal the input words joined by single spaces.
C1_SegmentsPartitionWords ==
    SegmenterRan =>
        /\ Flatten([k \in 1..Len(segments) |-> SegmentWords(k)])
              = WordTextsOf(word_timings)
        /\ JoinWith(Split(JoinWith(SegmentTexts, <<" ">>)), <<" ">>)
              = JoinWith(WordTextsOf(word_timings), <<" ">>)
        /\ \A k \in 1..Len(segments) : SegmentWords(k) /= <<>>

C1_Witness ==
    /\ SegmenterRan
    /\ Len(word_timings) = 3
    /\ Len(segments) = 2
    /\ Len(SegmentWords(1)) = 2
    /\ ~EndsSentence(word_timings[3].text)

\* C2: every segment but the final one ends with a word ending in '.', '!'
\* or '?', and no word ending in one of them stands before the last word of
\* its segment.
C2_SentenceBoundaries ==
    SegmenterRan =>
        \A k \in 1..Len(segments) :
            LET ws == SegmentWords(k)
            IN  /\ ws /= <<>>
                /\ k < Len(segments) => EndsSentence(ws[Len(ws)])
                /\ \A j \in 1..(Len(ws) - 1) : ~EndsSentence(ws[j])

C2_Witness ==
    /\ SegmenterRan
    /\ Len(segments) = 3
    /\ EndsWith(segments[1].text, "!")
    /\ EndsWith(segments[2].text, "?")
    /\ ~EndsSentence(segments[3].text)

\* C3: every segment, the first one included, starts at the start of its
\* first word.
C3_StartIsFirstWordStart ==
    SegmenterRan =>
        \A k \in 1..Len(segments) :
            segments[k].start_time = word_timings[FirstWordIndex(k)].start

\* C4: every segment ends at start + duration of its last word.
C4_EndIsLastWordEnd ==
    SegmenterRan =>
        \A k \in 1..Len(segments) :
            LET last == word_timings[LastWordIndex(k)]
            IN  segments[k].end_time = RAdd(last.start, last.duration)

\* two words ("a", 0.0, 0.5), ("d?", 0.5, 1.0) give one segment "a d?" ending
\* at 1.5
C4_Witness ==
    /\ SegmenterRan
    /\ Len(word_timings) = 2
    /\ word_timings[1].start = Zero
    /\ word_timings[2].start = Rat(1, 2)
    /\ word_timings[2].duration = Rat(1, 1)
    /\ Len(segments) = 1
    /\ segments[1].text = <<"a", " ", "d", "?">>
    /\ segments[1].end_time = Rat(3, 2)

\* C5: an empty word-timing list gives an empty segment list.
C5_EmptyInEmptyOut ==
    (pc = "segmenter_done" /\ word_timings = <<>>) => segments = <<>>

----------------------------------------------------------------------------
(* Properties of the estimation path (EstSpec) *)

RECURSIVE RSum(_)
RSum(q) == IF q = <<>> THEN Zero ELSE RAdd(Head(q), RSum(Tail(q)))

SegmentDuration(k) == RSub(segments[k].end_time, segments[k].start_time)

TotalSegmentWords == LastWordIndex(Len(segments))

\* C6: on the estimation path segment i lasts (wi / sum(w)) * D, the first
\* segment starts at 0, each segment starts where the previous one ends, and
\* the durations sum to D (the last segment ends at D).
C6_ProportionalAllocation ==
    pc = "estimate_done" =>
        /\ segments /= <<>>
        /\ segments[1].start_time = Zero
        /\ \A k \in 1..(Len(segments) - 1) :
               segments[k + 1].start_time = segments[k].end_time
        /\ segments[Len(segments)].end_time = total_duration
        /\ RSum([k \in 1..Len(segments) |-> SegmentDuration(k)]) = total_duration
        /\ TotalSegmentWords > 0 =>
               \A k \in 1..Len(segments) :
                   SegmentDuration(k)
                     = RMul(Rat(Len(SegmentWords(k)), TotalSegmentWords),
                            total_duration)

\* ". a a" with D = 3: sentences of 1 and 2 words get 1 s and 2 s
C6_Witness ==
    /\ pc = "estimate_done"
    /\ total_duration = Rat(3, 1)
    /\ Len(segments) = 2
    /\ Len(SegmentWords(1)) = 1
    /\ Len(SegmentWords(2)) = 2
    /\ segments[2].start_time = Rat(1, 1)

----------------------------------------------------------------------------
(* Properties of the narration job (Spec) *)

ResultSegments == tts_result.segments

\* C7: in every returned TTSResult each segment has start_time < end_time,
\* the segments are ordered by start_time, and segment i ends no later than
\* segment i+1 starts (the pair ending in the last element excepted).
C7_SegmentsOrderedDisjoint ==
    pc = "tts_done" =>
        /\ \A k \in 1..Len(ResultSegments) :
               RLess(ResultSegments[k].start_time, ResultSegments[k].end_time)
        /\ \A k \in 1..(Len(ResultSegments) - 1) :
               RLeq(ResultSegments[k].start_time, ResultSegments[k + 1].start_time)
        /\ \A k \in 1..(Len(ResultSegments) - 2) :
               RLeq(ResultSegments[k].end_time, ResultSegments[k + 1].start_time)

\* C8: in every returned TTSResult total_duration is at least the end_time
\* of the last segment.
C8_TotalCoversLastSegment ==
    (pc = "tts_done" /\ ResultSegments /= <<>>) =>
        RLeq(ResultSegments[Len(ResultSegments)].end_time,
             tts_result.total_duration)

\* C9: the segments of one returned TTSResult all come from the word-timing
\* segmenter or all from the estimation path.
C9_SingleSegmentSource ==
    pc = "tts_done" =>
        \A j, k \in 1..Len(ResultSegments) :
            ResultSegments[j].origin = ResultSegments[k].origin

IsProperPrefix(a, b) == Len(a) < Len(b) /\ SubSeq(b, 1, Len(a)) = a

\* C10: the text on card i+1 has the text on card i as a proper prefix.
C10_CardTextGrows ==
    pc = "clips_done" =>
        /\ Len(clips) = Len(ResultSegments)
        /\ \A i \in 1..(Len(clips) - 1) :
               IsProperPrefix(clips[i].card_text, clips[i + 1].card_text)

C10_Witness ==
    /\ pc = "clips_done"
    /\ Len(clips) = 3
    /\ clips[1].card_text = <<"b", ".">>
    /\ clips[2].card_text = <<"b", ".", "\n", "a">>
    /\ clips[3].card_text = <<"b", ".", "\n", "a", "\n", "a", " ", "a">>

----------------------------------------------------------------------------
(* Properties of the composer (ComposeSpec) *)

\* compose_video got as far as building the audio and the card clips
AudioComposed == video.status \in {"written", "encode_failed"}

LastSegment == tts_result.segments[Len(tts_result.segments)]

\* C11: whenever generate_video mixes a sound effect in, the sound effect
\* starts when the last card clip starts, which is the start_time of the last
\* segment.
C11_SfxLandsWithLastCard ==
    (pc = "video_generated" /\ AudioComposed /\ Len(video.audio_clips) > 1) =>
        /\ tts_result.segments /= <<>>
        /\ Len(video.tweet_clips) = Len(tts_result.segments)
        /\ video.audio_clips[2].start
             = video.tweet_clips[Len(video.tweet_clips)].start
        /\ video.tweet_clips[Len(video.tweet_clips)].start
             = LastSegment.start_time

C11_Witness ==
    /\ pc = "video_generated"
    /\ video.status = "written"
    /\ Len(video.tweet_clips) = 3
    /\ Len(video.audio_clips) = 2
    /\ video.audio_clips[2].start = Rat(3, 2)
    /\ video.tweet_clips[3].start = Rat(3, 2)

\* C12: compose_video called with an existing sound-effect file and no
\* trigger time starts the sound at the start_time of the last segment; with
\* no segments either, it mixes no sound effect.
C12_DefaultTriggerTime ==
    (/\ pc = "composed"
     /\ AudioComposed
     /\ sound_effect_path /= None
     /\ OsPathExists(sound_effect_path[1])
     /\ sound_effect_time = None) =>
        IF tts_result.segments /= <<>>
        THEN /\ Len(video.audio_clips) = 2
             /\ video.audio_clips[2].start = LastSegment.start_time
        ELSE Len(video.audio_clips) = 1

C12_Witness ==
    /\ pc = "composed"
    /\ video.status = "written"
    /\ sound_effect_path = Some("boing.mp3")
    /\ sound_effect_time = None
    /\ Len(tts_result.segments) = 3
    /\ tts_result.segments[3].start_time = Rat(2, 1)
    /\ Len(video.audio_clips) = 2
    /\ video.audio_clips[2].start = Rat(2, 1)

C12_WitnessNoSegments ==
    /\ pc = "composed"
    /\ video.status = "written"
    /\ sound_effect_path = Some("boing.mp3")
    /\ sound_effect_time = None
    /\ tts_result.segments = <<>>
    /\ Len(video.audio_clips) = 1

\* C13 as stated: a narration shorter than 10 s gives a video of exactly
\* 10 s, a narration of 10 s or more gives the narration plus 2 s.
C13_FloorBelowTmin ==
    (pc \in {"composed", "video_generated"} /\ video.status = "written") =>
        IF RLess(tts_result.total_duration, Rat(10, 1))
        THEN video.total_duration = Rat(10, 1)
        ELSE video.total_duration = RAdd(tts_result.total_duration, Rat(2, 1))

\* C13, amended: a narration of at most 8 s (10 s less the padding) gives a
\* video of exactly 10 s, a longer narration gives the narration plus 2 s.
C13_FloorBelowTminLessPadding ==
    (pc \in {"composed", "video_generated"} /\ video.status = "written") =>
        IF RLeq(tts_result.total_duration, Rat(8, 1))
        THEN video.total_duration = Rat(10, 1)
        ELSE video.total_duration = RAdd(tts_result.total_duration, Rat(2, 1))

C13_Witness ==
    /\ pc = "composed"
    /\ video.status = "written"
    /\ tts_result.total_duration = Rat(9, 1)
    /\ video.total_duration = Rat(11, 1)

\* C14: the duration of the video is never below 10 s and never below the
\* duration of the narration.
C14_NeverBelowFloorOrNarration ==
    (pc \in {"composed", "video_generated"} /\ AudioComposed) =>
        /\ RLeq(Rat(10, 1), video.total_duration)
        /\ RLeq(tts_result.total_duration, video.total_duration)

C14_Witness ==
    /\ pc = "composed"
    /\ video.status = "written"
    /\ tts_result.total_duration = Rat(3, 2)
    /\ video.total_duration = Rat(10, 1)

C14_WitnessLongNarration ==
    /\ pc = "video_generated"
    /\ video.status = "written"
    /\ tts_result.total_duration = Rat(11, 1)
    /\ video.total_duration = Rat(13, 1)

\* C15: a background shorter than the video is repeated n times with n times
\* its duration strictly above the duration of the video; a background at
\* least as long is not repeated; either way the background is cut to the
\* duration of the video.
C15_BackgroundLoop ==
    (pc \in {"composed", "video_generated"} /\ AudioComposed) =>
        \A d \in backgrounds :
            /\ RLess(d, video.total_duration) =>
                  /\ video.n_loops > 1
                  /\ RLess(video.total_duration,
                           RMul(Rat(video.n_loops, 1), d))
            /\ ~RLess(d, video.total_duration) => video.n_loops = 1
            /\ video.background_duration = video.total_duration

C15_Witness ==
    /\ pc = "composed"
    /\ video.status = "written"
    /\ backgrounds = {Rat(5, 1)}
    /\ video.total_duration = Rat(12, 1)
    /\ video.n_loops = 3
    /\ video.background_duration = Rat(12, 1)

C15_WitnessLongBackground ==
    /\ pc = "composed"
    /\ video.status = "written"
    /\ backgrounds = {Rat(11, 1)}
    /\ video.total_duration = Rat(10, 1)
    /\ video.n_loops = 1

SfxMissing == sound_effect_path = None \/ ~OsPathExists(sound_effect_path[1])

\* C16: the composed audio always starts with the narration at time 0 and
\* at full volume, anything else in it is the sound effect; without a sound
\* effect file the composition still succeeds (given a background and a
\* working encoder) with the narration alone.
C16_NarrationAlwaysPresent ==
    (pc \in {"composed", "video_generated"}) =>
        /\ AudioComposed =>
              /\ Len(video.audio_clips) \in {1, 2}
              /\ video.audio_clips[1] = [clip |-> tts_result.audio_file,
                                         start |-> Zero,
                                         volume |-> Rat(1, 1)]
              /\ Len(video.audio_clips) = 2 =>
                    /\ ~SfxMissing
                    /\ video.audio_clips[2].clip = sound_effect_path[1]
        /\ (SfxMissing /\ backgrounds /= {} /\ ~encoder_fails) =>
              /\ video.status = "written"
              /\ Len(video.audio_clips) = 1

C16_Witness ==
    /\ pc = "video_generated"
    /\ video.status = "written"
    /\ sound_effect_path = Some("boing.mp3")
    /\ Len(video.audio_clips) = 2
    /\ video.audio_clips[1].clip = "joke.mp3"
    /\ video.audio_clips[1].start = Zero

C16_WitnessFileGone ==
    /\ pc = "video_generated"
    /\ video.status = "written"
    /\ sound_effect_path = Some("gone.mp3")
    /\ Len(video.audio_clips) = 1

C16_WitnessNoFile ==
    /\ pc = "video_generated"
    /\ video.status = "written"
    /\ sound_effect_path = None
    /\ tts_result.segments /= <<>>
    /\ Len(video.audio_clips) = 1

----------------------------------------------------------------------------
(* Properties of the batch (BotSpec) *)

GeneratedIds(h) == Range(h.generated_posts)

UploadedIds(h) == { h.uploaded_videos[i].post_id : i \in DOMAIN h.uploaded_videos }

\* C17: when the upload is attempted the post id is already in
\* generated_posts, in memory and in the ledger file; a job whose upload
\* failed has returned a result, its id is in generated_posts and not among
\* the uploads, its video file is still there, and no other job of the batch
\* works on that id.
C17_RecordedBeforePublish ==
    /\ pc = "upload" =>
          /\ joke[1] \in GeneratedIds(history)
          /\ history_file = Some(history)
    /\ \A i \in DOMAIN results :
          (results[i] /= None /\ results[i][1].upload_error) =>
              LET id == results[i][1].post_id
              IN  /\ id \in GeneratedIds(history)
                  /\ history_file /= None
                  /\ id \in GeneratedIds(history_file[1])
                  /\ id \notin UploadedIds(history)
                  /\ id \notin UploadedIds(history_file[1])
                  /\ results[i][1].video_path = id
                  /\ id \in videos
                  /\ joke /= Some(id)
                  /\ \A j \in DOMAIN results :
                        (j /= i /\ results[j] /= None) =>
                            results[j][1].post_id /= id

C17_Witness ==
    /\ pc = "upload"
    /\ job = 2
    /\ results = <<Some(JobResult(2, 2, None, TRUE))>>
    /\ joke = Some(3)
    /\ history.generated_posts = <<2, 3>>
    /\ history.uploaded_videos = <<>>
    /\ history_file = Some(history)

\* C18: generated_posts holds no id twice, uploaded_videos holds no two
\* entries of one post, the joke a job works on is not in generated_posts
\* until the job records it, and no two jobs return the same post.
C18_NoIdTwice ==
    /\ \A i, j \in DOMAIN history.generated_posts :
          i /= j => history.generated_posts[i] /= history.generated_posts[j]
    /\ \A i, j \in DOMAIN history.uploaded_videos :
          i /= j => history.uploaded_videos[i].post_id
                       /= history.uploaded_videos[j].post_id
    /\ (pc \in {"fetched", "audio_done", "video_done"}) =>
          joke[1] \notin GeneratedIds(history)
    /\ \A i, j \in DOMAIN results :
          (i /= j /\ results[i] /= None /\ results[j] /= None) =>
              results[i][1].post_id /= results[j][1].post_id

C18_Witness ==
    /\ pc = "batch_done"
    /\ count = 3
    /\ history.generated_posts = <<1, 3, 2>>
    /\ Len(history.uploaded_videos) = 3
    /\ results[1] /= None
    /\ results[2] /= None
    /\ results[3] = None

\* C19: the ledger, in memory or on disk, changes only in a job whose video
\* was composed; a job that returns None or raises leaves the ledger as it
\* was, a job that raises reports nothing, and a reported post has its video.
C19_LedgerOnlyAfterComposition ==
    [][ /\ (history' /= history \/ history_file' /= history_file) =>
              /\ pc \in {"video_done", "upload"}
              /\ joke /= None
              /\ joke[1] \in videos
              /\ video_path = joke
        /\ (\/ pc' = "crashed"
            \/ /\ Len(results') > Len(results)
               /\ results'[Len(results')] = None) =>
              /\ history' = history
              /\ history_file' = history_file
        /\ pc' = "crashed" => results' = results
        /\ (/\ Len(results') > Len(results)
            /\ results'[Len(results')] /= None) =>
              /\ results'[Len(results')][1].post_id \in videos
              /\ results'[Len(results')][1].post_id \in GeneratedIds(history')
      ]_vars

C19_Witness ==
    /\ pc = "crashed"
    /\ job = 3
    /\ video_path = None
    /\ results = <<Some(JobResult(2, 2, None, FALSE)), None>>
    /\ history.generated_posts = <<1, 2>>
    /\ history_file = Some(history)
    /\ videos = {1, 2}

\* C20: the batch ends only after every one of its count jobs was run,
\* whatever failed in a job.
C20_FailureAbortsOnlyJob ==
    (pc \in {"batch_done", "crashed"}) => job = count

\* the stages of a job
StageSequence == <<"fetch", "synthesize", "compose", "record", "publish">>

\* C21: the stages a job has entered are the first stages of fetch,
\* synthesis, composition, ledger entry, upload, in this order, each entered
\* once (composition too, also after it failed), and each entered where the
\* one before has returned.
C21_StagesInOrder ==
    /\ Len(stages) <= Len(StageSequence)
    /\ stages = SubSeq(StageSequence, 1, Len(stages))
    /\ pc = "fetched" => stages = SubSeq(StageSequence, 1, 1)
    /\ pc = "audio_done" => stages = SubSeq(StageSequence, 1, 2)
    /\ pc = "video_done" => stages = SubSeq(StageSequence, 1, 3)
    /\ pc = "upload" => stages = SubSeq(StageSequence, 1, 4)

C21_Witness ==
    /\ pc = "main"
    /\ job = 2
    /\ stages = StageSequence
    /\ Len(results) = 2
    /\ results[2] /= None
    /\ results[2][1].upload_error

C21_WitnessComposeFailed ==
    /\ pc = "crashed"
    /\ stages = <<"fetch", "synthesize", "compose">>
    /\ video_path = None

----------------------------------------------------------------------------
(* Properties of the uploader (UploadSpec) *)

\* the i-th failure of next_chunk was retried: the loop went on after it
WasRetried(i) == i < Len(errors) \/ upload_exc = None

\* the i-th failure of next_chunk was raised to the caller at once
WasRaised(i) ==
    /\ i = Len(errors)
    /\ upload_exc = Some(errors[i].error)
    /\ pc = "upload_raised"

\* C22 as stated: a failure of next_chunk with any 5xx status is retried
\* while fewer than max_retries failures were retried before it; any other
\* failure is raised at once.
C22_Retry5xx ==
    \A i \in DOMAIN errors :
        IF /\ errors[i].error.type = "HttpError"
           /\ errors[i].error.status \in 500..599
           /\ i <= max_retries
        THEN WasRetried(i)
        ELSE WasRaised(i)

\* C22, amended: a failure of next_chunk with status 500, 502, 503 or 504
\* is retried while fewer than max_retries failures were retried before it;
\* any other failure, a 5xx of another status included, is raised at once.
C22_RetryListedStatuses ==
    \A i \in DOMAIN errors :
        IF /\ errors[i].error.type = "HttpError"
           /\ errors[i].error.status \in {500, 502, 503, 504}
           /\ i <= max_retries
        THEN WasRetried(i)
        ELSE WasRaised(i)

C22_Witness ==
    /\ pc = "upload_raised"
    /\ Len(errors) = 2
    /\ errors[1].error = HttpError(502)
    /\ errors[2].error = HttpError(501)
    /\ retry_count = 1
    /\ upload_exc = Some(HttpError(501))

UploadOver == pc \in {"upload_returned", "upload_raised"}

\* C23: retry_count counts every retried failure of the call, over all
\* chunks, and never exceeds max_retries; a retryable failure after that is
\* raised; and the call ends, with a response or with an exception.
C23_BoundedRetries ==
    /\ [](/\ retry_count <= max_retries
          /\ retry_count = Cardinality({ i \in DOMAIN errors : WasRetried(i) })
          /\ Len(errors) <= max_retries + 1
          /\ Len(errors) = max_retries + 1 => WasRaised(Len(errors))
          /\ pc = "upload_returned" => response /= None /\ upload_exc = None
          /\ pc = "upload_raised" => response = None /\ upload_exc /= None)
    /\ <>UploadOver

C23_Witness ==
    /\ pc = "upload_raised"
    /\ retry_count = 3
    /\ Len(errors) = 4
    /\ errors[1] = [error |-> HttpError(500), chunk |-> 3]
    /\ errors[2] = [error |-> HttpError(503), chunk |-> 2]
    /\ errors[3] = [error |-> HttpError(503), chunk |-> 1]
    /\ errors[4] = [error |-> HttpError(503), chunk |-> 1]
    /\ upload_exc = Some(HttpError(503))

C23_WitnessReturned ==
    /\ pc = "upload_returned"
    /\ retry_count = 3
    /\ chunks_left = 0
    /\ response /= None

----------------------------------------------------------------------------
(* Properties of generate_speech (SpeechSpec) *)

SpeechOver == pc \in {"speech_returned", "speech_raised"}

\* the call reached the primary engine and the primary engine raised
PrimaryFailed == engines.edge /= NotCalled /\ engines.edge.raised

\* the call returned what the fallback engine produced: the measured
\* duration and segments estimated from it
ReturnedFallbackResult ==
    /\ pc = "speech_returned"
    /\ use_gtts
    /\ tts_result = GTTSResult(text, "speech.mp3", engines.gtts.duration)
    /\ tts_result.segments /= <<>>
    /\ \A i \in DOMAIN tts_result.segments :
          tts_result.segments[i].origin = "estimate"

----------------------------------------------------------------------------
(* Properties of the card renderer (CardSpec) *)

\* C25 as stated: the height of the card panel is header_height + n *
\* line_height + footer_height + 2 * padding for a body of n lines, and
\* does not decrease with n.
C25_PanelHeight ==
    /\ \A i \in DOMAIN cards :
          cards[i].total_height =
              header_height + Len(cards[i].lines) * line_height
                  + footer_height + 2 * padding
    /\ \A n \in 0..8 : TotalHeight(n) <= TotalHeight(n + 1)

\* C25, amended: the height of the card panel is header_height + max(n *
\* line_height, 120) + footer_height + 2 * padding for a body of n lines,
\* which is the stated sum for n >= 2 and 360 for n < 2, and does not
\* decrease with n.
C25_PanelHeightWithFloor ==
    /\ \A i \in DOMAIN cards :
          LET n == Len(cards[i].lines)
          IN  /\ cards[i].total_height =
                    header_height + Max(n * line_height, 120)
                        + footer_height + 2 * padding
              /\ n >= 2 => cards[i].total_height = 90 + 62 * n + 70 + 80
              /\ n < 2 => cards[i].total_height = 360
    /\ \A n \in 0..8 : TotalHeight(n) <= TotalHeight(n + 1)

C25_Witness ==
    /\ Len(cards) = 1
    /\ text = [i \in 1..33 |-> "c"] \o <<" ">> \o [i \in 1..33 |-> "c"]
    /\ Len(cards[1].lines) = 3
    /\ cards[1].lines[2] = <<"c", " ">> \o [i \in 1..30 |-> "c"]
    /\ cards[1].total_height = 426

C25_WitnessOneLine ==
    /\ Len(cards) = 1
    /\ text = <<"a">>
    /\ Len(cards[1].lines) = 1
    /\ cards[1].total_height = 360

\* C26: two calls of create_tweet_card with the same arguments return the
\* same card.
C26_SameInputsSameCard ==
    \A i, j \in DOMAIN cards : cards[i] = cards[j]

----------------------------------------------------------------------------
(* Properties of the card windows (Spec) *)

ClipEnd(k) == RAdd(clips[k].start, clips[k].duration)

\* the precondition: start times strictly increasing, the last one before
\* the end of the video
StartsIncreaseBelow(segs, video_duration) ==
    /\ segs /= <<>>
    /\ \A k \in 1..(Len(segs) - 1) :
          RLess(segs[k].start_time, segs[k + 1].start_time)
    /\ RLess(segs[Len(segs)].start_time, video_duration)

\* C27: when the start times of the segments increase strictly and the last
\* is before the end of the video, every card window has a positive
\* duration, starts with its segment, ends where the next window starts (the
\* last at the end of the video), and no two windows share an instant.
C27_WindowsTile ==
    (/\ pc = "clips_done"
     /\ StartsIncreaseBelow(tts_result.segments,
                            VideoDuration(tts_result.total_duration))) =>
        /\ Len(clips) = Len(tts_result.segments)
        /\ \A k \in DOMAIN clips :
              /\ clips[k].start = tts_result.segments[k].start_time
              /\ RLess(Zero, clips[k].duration)
              /\ ClipEnd(k) = IF k < Len(clips)
                              THEN clips[k + 1].start
                              ELSE VideoDuration(tts_result.total_duration)
        /\ \A j, k \in DOMAIN clips :
              j < k => RLeq(ClipEnd(j), clips[k].start)

C27_Witness ==
    /\ pc = "clips_done"
    /\ StartsIncreaseBelow(tts_result.segments,
                           VideoDuration(tts_result.total_duration))
    /\ Len(clips) = 3
    /\ clips[1].start = Zero
    /\ clips[2].start = Rat(3, 2)
    /\ clips[3].start = Rat(2, 1)
    /\ clips[3].duration = Rat(8, 1)

\* the precondition of C27 can fail
C27_WitnessUnordered ==
    /\ pc = "clips_done"
    /\ Len(clips) >= 2
    /\ ~StartsIncreaseBelow(tts_result.segments,
                            VideoDuration(tts_result.total_duration))

----------------------------------------------------------------------------
(* Properties of generate_with_pause (Spec) *)

\* generate_with_pause has returned the result of the job
WithPauseReturned ==
    /\ pc \in {"tts_done", "clips_done"}
    /\ pause_duration /= Zero

PauseOffset == RAdd(setup_result.total_duration, pause_duration)

\* C28: the result of generate_with_pause holds the setup segments with
\* their times unchanged, then the punchline segments each moved by the
\* total duration of the setup plus the pause; its total duration is that
\* offset plus the total duration of the punchline; no punchline segment
\* starts before the offset.
C28_PunchlineShifted ==
    WithPauseReturned =>
        LET n == Len(setup_result.segments)
            m == Len(punchline_result.segments)
        IN  /\ Len(tts_result.segments) = n + m
            /\ \A k \in 1..n :
                  /\ tts_result.segments[k].text = setup_result.segments[k].text
                  /\ tts_result.segments[k].start_time
                        = setup_result.segments[k].start_time
                  /\ tts_result.segments[k].end_time
                        = setup_result.segments[k].end_time
            /\ \A k \in 1..m :
                  /\ tts_result.segments[n + k].text
                        = punchline_result.segments[k].text
                  /\ tts_result.segments[n + k].start_time
                        = RAdd(punchline_result.segments[k].start_time,
                               PauseOffset)
                  /\ tts_result.segments[n + k].end_time
                        = RAdd(punchline_result.segments[k].end_time,
                               PauseOffset)
                  /\ RLeq(PauseOffset, tts_result.segments[n + k].start_time)
            /\ tts_result.total_duration
                  = RAdd(PauseOffset, punchline_result.total_duration)

C28_Witness ==
    /\ pc = "tts_done"
    /\ pause_duration = Rat(1, 1)
    /\ setup_result.total_duration = Rat(1, 1)
    /\ Len(setup_result.segments) = 1
    /\ Len(punchline_result.segments) = 2
    /\ punchline_result.segments[2].start_time = Rat(1, 1)
    /\ tts_result.segments[3].start_time = Rat(3, 1)
    /\ tts_result.total_duration = Rat(7, 2)

----------------------------------------------------------------------------
(* Properties of the ledger (BotSpec) *)

IsPrefix(a, b) == Len(a) <= Len(b) /\ SubSeq(b, 1, Len(a)) = a

\* ledger h2 holds everything ledger h1 holds, in place
LedgerExtends(h1, h2) ==
    /\ IsPrefix(h1.generated_posts, h2.generated_posts)
    /\ IsPrefix(h1.uploaded_videos, h2.uploaded_videos)

\* C29: every post in uploaded_videos is in generated_posts, in memory and
\* in the ledger file, and every step leaves what both lists hold in place:
\* the lists only grow at their end.
C29_LedgerGrows ==
    /\ [](/\ UploadedIds(history) \subseteq GeneratedIds(history)
          /\ history_file /= None =>
                UploadedIds(history_file[1])
                    \subseteq GeneratedIds(history_file[1]))
    /\ [][ /\ LedgerExtends(history, history')
           /\ history_file /= None =>
                 /\ history_file' /= None
                 /\ LedgerExtends(history_file[1], history_file'[1])
         ]_vars

C29_Witness ==
    /\ pc = "batch_done"
    /\ count = 3
    /\ history.generated_posts = <<2, 1, 3>>
    /\ Len(history.uploaded_videos) = 2
    /\ history.uploaded_videos[1].post_id = 2
    /\ history.uploaded_videos[2].post_id = 3
    /\ history_file = Some(history)

----------------------------------------------------------------------------
(* Properties of two processes on one history file (SharedSpec) *)

\* the ids process b has appended to its ledger itself
OwnRecords(b) ==
    IF bots[b].pc = "video_done"
    THEN SubSeq(bots[b].made, 1, Len(bots[b].made) - 1)
    ELSE bots[b].made

\* C30: a process holds the ledger it loaded at construction followed by
\* its own records and nothing of what the other process wrote since, and
\* every write of the file replaces it by the writer's in-memory ledger; so
\* a write can drop an id the other process recorded, and the same id is
\* then generated by both (the state C30_Witness).
C30_LostUpdate ==
    /\ [](\A b \in Bots :
            bots[b].pc /= "start" =>
                bots[b].history.generated_posts =
                    bots[b].loaded.generated_posts \o OwnRecords(b))
    /\ [][ history_file' /= history_file =>
             \E b \in Bots :
                 /\ bots[b].pc \in {"video_done", "upload"}
                 /\ bots'[b] /= bots[b]
                 /\ history_file' = Some(bots'[b].history)
         ]_vars

\* process 1 recorded post 1, the write of process 2 dropped it from the
\* file, and process 2 has now generated post 1 as well
C30_Witness ==
    /\ pc = "shared"
    /\ bots[1].history.generated_posts = <<1>>
    /\ bots[1].made = <<1>>
    /\ bots[2].loaded = EmptyHistory
    /\ bots[2].history.generated_posts = <<2>>
    /\ bots[2].made = <<2, 1>>
    /\ bots[2].pc = "video_done"
    /\ history_file /= None
    /\ history_file[1].generated_posts = <<2>>
    /\ 1 \notin GeneratedIds(history_file[1])

====
